---------------------------- MODULE Spec2Model ----------------------------
(***************************************************************************)
(* A model of inotify/newwatcher.py: the Watcher registry, the per-path   *)
(* _Watch with its chain of _Link objects, the _Descriptor multiplexer    *)
(* and the Event translation, together with the part of the kernel's      *)
(* inotify interface (add_watch, read) and of the file system (readlink,  *)
(* stat) that the module calls.                                            *)
(*                                                                         *)
(* Strings that the code takes apart (paths) are sequences of one-letter  *)
(* strings, "/" being path.sep.  Bit masks are sets of flag names: a|b is *)
(* the union, a&b the intersection, and a mask is true when non-empty.    *)
(*                                                                         *)
(* The interpreter is one on which os.errno resolves (Python 3.3 to 3.6:  *)
(* the module needs `yield from`, and reads os.errno in _Watch.add).      *)
(***************************************************************************)
EXTENDS Integers, Sequences, FiniteSets, TLC

VARIABLES
    watchdescriptors,   \* Watcher._watchdescriptors: wd -> _Descriptor
    paths,              \* Watcher._paths: path string -> id of its _Watch
    buffer,             \* Watcher._buffer: pending Events
    watches,            \* the _Watch objects that registered a _Link, by id
    closed,             \* Watcher.close() was called
    kern,               \* the kernel's inotify instance behind Watcher.fd
    ret                 \* outcome of the call that has returned, until the caller takes it

vars == <<watchdescriptors, paths, buffer, watches, closed, kern, ret>>

-----------------------------------------------------------------------------
(* Bounds of the model.                                                    *)

\* _Watch objects that registered at least one _Link
MaxWatches == 2
\* raw events one inotify.read returns
MaxQueue == 2
\* longest chain drawn when handle_event is checked as a function
MaxChain == 3
\* bits of a value of the constants table
MaxBits == 4
\* entries of a constants table
MaxFlags == 2

-----------------------------------------------------------------------------
(* Python values.                                                          *)

\* None where the code expects a string (a name)
None == <<"None">>
\* no exception raised
NoError == "NoError"

\* names bound in the module namespace of newwatcher.py when a function runs
ModuleNames ==
    {"constants", "inotify", "functools", "operator", "array", "errno", "fcntl",
     "os", "path", "termios", "namedtuple", "inotify_builtin_constants",
     "decode_mask", "Event", "Watcher", "semirawevent",
     "_Watch", "_Link", "_Descriptor", "_make_getter",
     "_inotify_props", "_event_props", "_watch_props"}

\* attributes of the os module that the code reads
OsAttrs_WithJoin == {"close", "getcwd", "readlink", "stat", "errno", "join"}

OsAttrs == {"close", "getcwd", "readlink", "stat", "errno"}

\* attributes of a _Watch instance
WatchAttrs ==
    {"watcher", "path", "cwd", "mask", "links", "inode",
     "_normpath", "_nonrel", "add", "addleaf", "addlink", "handle_event"}

\* `raise X(...)`: X is looked up first; an unbound name raises NameError
RaiseName(x) == IF x \in ModuleNames THEN x ELSE "NameError"

-----------------------------------------------------------------------------
(* Flags and masks.                                                        *)

IN_MOVE == {"IN_MOVED_FROM", "IN_MOVED_TO"}
IN_LINK_CHANGED == {"IN_LINK_CHANGED"}
IN_IGNORED == {"IN_IGNORED"}
IN_Q_OVERFLOW == {"IN_Q_OVERFLOW"}
SelfFlags == {"IN_MOVE_SELF", "IN_DELETE_SELF"}

\* mask of a symlink segment, _Watch.addlink
LinkMask == IN_MOVE \cup {"IN_DELETE", "IN_CREATE", "IN_ONLYDIR"}

\* mask of the leaf, _Watch.addleaf
LeafMask(mask) == mask \cup SelfFlags

-----------------------------------------------------------------------------
(* posixpath, on sequences of one-letter strings.                          *)

Sep == "/"

RECURSIVE RFind(_, _)
\* str.rfind(sep) + 1 within the first i letters
RFind(p, i) ==
    IF i = 0 THEN 0 ELSE IF p[i] = Sep THEN i ELSE RFind(p, i - 1)

RECURSIVE RStrip(_)
\* str.rstrip(sep)
RStrip(p) ==
    IF p # <<>> /\ p[Len(p)] = Sep THEN RStrip(SubSeq(p, 1, Len(p) - 1)) ELSE p

\* posixpath.split
PathSplit(p) ==
    LET Parts(i) ==
            LET Strip(head, stripped) ==
                    IF head # <<>> /\ stripped # <<>> THEN stripped ELSE head
            IN  << Strip(SubSeq(p, 1, i), RStrip(SubSeq(p, 1, i))),
                   SubSeq(p, i + 1, Len(p)) >>
    IN  Parts(RFind(p, Len(p)))

\* posixpath.dirname
Dirname(p) == PathSplit(p)[1]

\* posixpath.join of two strings
PathJoin(a, b) ==
    IF b # <<>> /\ b[1] = Sep THEN b
    ELSE IF a = <<>> \/ a[Len(a)] = Sep THEN a \o b
    ELSE a \o <<Sep>> \o b

RECURSIVE StrSplit(_, _)
\* str.split(sep): cur is the piece being read
StrSplit(p, cur) ==
    IF p = <<>> THEN <<cur>>
    ELSE IF p[1] = Sep THEN <<cur>> \o StrSplit(Tail(p), <<>>)
    ELSE StrSplit(Tail(p), Append(cur, p[1]))

\* _Watch._normpath: the pieces that are neither '' nor '.'
NormPath(p) == SelectSeq(StrSplit(p, <<>>), LAMBDA c : c \notin {<<>>, <<".">>})

RECURSIVE JoinAll(_)
\* posixpath.join(*pieces), at least one piece
JoinAll(cs) ==
    IF Len(cs) = 1 THEN cs[1]
    ELSE PathJoin(JoinAll(SubSeq(cs, 1, Len(cs) - 1)), cs[Len(cs)])

-----------------------------------------------------------------------------
(* The file system that os.readlink, os.stat and inotify.add_watch see.    *)
(*   /d      a directory, the working directory                            *)
(*   /d/f    a regular file                                                *)
(*   /d/l    a symbolic link to f                                          *)
(*   /d/x    a symbolic link to n, which does not exist                    *)

\* os.getcwd()
Cwd == <<"/", "d">>

Kd == <<"d">>
Kf == <<"f">>
Kl == <<"l">>
Kx == <<"x">>
Kn == <<"n">>

\* the entry at a list of path components, before the not-a-directory rule
FsNode(c) ==
    CASE c = <<>>       -> [kind |-> "dir", ino |-> 1, target |-> <<>>]
      [] c = <<Kd>>     -> [kind |-> "dir", ino |-> 2, target |-> <<>>]
      [] c = <<Kd, Kf>> -> [kind |-> "file", ino |-> 3, target |-> <<>>]
      [] c = <<Kd, Kl>> -> [kind |-> "symlink", ino |-> 4, target |-> Kf]
      [] c = <<Kd, Kx>> -> [kind |-> "symlink", ino |-> 5, target |-> Kn]
      [] OTHER          -> [kind |-> "absent", ino |-> 0, target |-> <<>>]

\* the entry a path string names, the last component not followed
Lookup(p) ==
    LET At(c) ==
            IF \E i \in 1..(Len(c) - 1) : FsNode(SubSeq(c, 1, i)).kind = "file"
            THEN [kind |-> "notdir", ino |-> 0, target |-> <<>>]
            ELSE FsNode(c)
    IN  IF p = <<>> THEN FsNode(<<Kn>>)
        ELSE At(NormPath(IF p[1] = Sep THEN p ELSE PathJoin(Cwd, p)))

\* os.readlink: the target, or the errno of the OSError
Readlink(p) ==
    LET Of(e) ==
            CASE e.kind = "symlink" -> [err |-> NoError, link |-> e.target]
              [] e.kind = "absent"  -> [err |-> "ENOENT", link |-> <<>>]
              [] e.kind = "notdir"  -> [err |-> "ENOTDIR", link |-> <<>>]
              [] OTHER              -> [err |-> "EINVAL", link |-> <<>>]
    IN  Of(Lookup(p))

RECURSIVE Resolve(_, _)
\* the entry a path string names, symbolic links followed (as the kernel does)
Resolve(p, fuel) ==
    LET Follow(e) ==
            IF e.kind = "symlink" /\ fuel > 0
            THEN Resolve(PathJoin(Dirname(p), e.target), fuel - 1)
            ELSE e
    IN  Follow(Lookup(p))

-----------------------------------------------------------------------------
(* The kernel side of inotify.add_watch.                                   *)
(* kern.w maps each watch descriptor to its inode and mask, and to whether *)
(* the kernel has removed the watch and queued its IN_IGNORED, not read    *)
(* yet; kern.next is the next descriptor number (none is reused).          *)

\* inotify.add_watch(fd, p, mask): the descriptor, or the errno
KAddWatch(k, p, mask) ==
    LET Update(wd) == [err |-> NoError, wd |-> wd, k |-> [k EXCEPT !.w[wd].mask = mask]]
        On(e) ==
            IF e.kind \in {"absent", "symlink"}
            THEN [err |-> "ENOENT", wd |-> 0, k |-> k]
            ELSE IF e.kind = "notdir" \/ ("IN_ONLYDIR" \in mask /\ e.kind # "dir")
            THEN [err |-> "ENOTDIR", wd |-> 0, k |-> k]
            ELSE IF \E x \in DOMAIN k.w : k.w[x].ino = e.ino /\ ~k.w[x].gone
            THEN Update(CHOOSE x \in DOMAIN k.w : k.w[x].ino = e.ino /\ ~k.w[x].gone)
            ELSE [err |-> NoError, wd |-> k.next,
                  k |-> [w |-> (k.next :> [ino |-> e.ino, mask |-> mask, gone |-> FALSE])
                               @@ k.w,
                         next |-> k.next + 1]]
    IN  On(Resolve(p, 2))

-----------------------------------------------------------------------------
(* _Descriptor.                                                            *)

\* _Descriptor.__init__
Descriptor_init(wd) == [wd |-> wd, mask |-> {}, callbacks |-> <<>>]

\* _Descriptor.add_callback; the callback is the bound method of a _Link,
\* kept as the _Link's watch id and index
Descriptor_add_callback(d, pth, mask, name, callback) ==
    [d EXCEPT !.mask = d.mask \cup mask,
              !.callbacks = Append(d.callbacks,
                  [mask |-> mask, name |-> name, cb |-> callback])]

-----------------------------------------------------------------------------
(* Building a _Watch.  st is the state the constructor works on: the       *)
(* descriptor registry, the kernel, the links appended so far and the      *)
(* exception raised, if any.                                               *)

\* Watcher._createwatch that makes a new _Descriptor on every call
Watcher_createwatch_Fresh(st, pth, name, mask, callback) ==
    LET Register(a) ==
            IF a.err # NoError THEN [st EXCEPT !.err = a.err]
            ELSE [st EXCEPT !.kern = a.k, !.wd = a.wd,
                     !.desc = (a.wd :> Descriptor_add_callback(Descriptor_init(a.wd),
                                  pth, mask, name, callback))
                              @@ st.desc]
    IN  Register(KAddWatch(st.kern, pth, mask))

\* Watcher._createwatch
Watcher_createwatch(st, pth, name, mask, callback) ==
    LET Register(a) ==
            IF a.err # NoError THEN [st EXCEPT !.err = a.err]
            ELSE [st EXCEPT !.kern = a.k, !.wd = a.wd,
                     !.desc = (a.wd :> Descriptor_add_callback(
                                  IF a.wd \in DOMAIN st.desc THEN st.desc[a.wd]
                                  ELSE Descriptor_init(a.wd),
                                  pth, mask, name, callback))
                              @@ st.desc]
    IN  Register(KAddWatch(st.kern, pth, mask))

\* _Link.__init__ followed by links.append: the link is appended only when
\* the constructor returns
Link_init(st, wid, mask, pth, name) ==
    LET Appended(s1) ==
            IF s1.err # NoError THEN s1
            ELSE [s1 EXCEPT !.links = Append(st.links,
                     [idx |-> Len(st.links), watch |-> wid, mask |-> mask,
                      path |-> pth, name |-> name, wd |-> s1.wd])]
    IN  Appended(Watcher_createwatch(st, pth, name, mask,
                                     [watch |-> wid, idx |-> Len(st.links)]))

\* os.stat(pth): the entry, symbolic links followed, or the errno
Stat(pth) ==
    LET Of(e) ==
            CASE e.kind \in {"absent", "symlink"} -> [err |-> "ENOENT", ino |-> 0]
              [] e.kind = "notdir"                -> [err |-> "ENOTDIR", ino |-> 0]
              [] OTHER                            -> [err |-> NoError, ino |-> e.ino]
    IN  Of(Resolve(pth, 2))

\* _Watch.addleaf
Watch_addleaf(st, wid, pth) ==
    LET Recorded(s1, stt) ==
            IF s1.err # NoError THEN s1
            ELSE IF stt.err # NoError THEN [s1 EXCEPT !.err = stt.err]
            ELSE [s1 EXCEPT !.inode = stt.ino]
    IN  Recorded(Link_init(st, wid, LeafMask(st.mask), pth, None), Stat(pth))

\* _Watch.addlink
Watch_addlink(st, wid, pth) ==
    LET Linked(split) == Link_init(st, wid, LinkMask, split[1], split[2])
    IN  Linked(PathSplit(pth))

\* os.join(a, b): the attribute is looked up on the os module first
OsJoin(a, b) ==
    IF "join" \in OsAttrs THEN [err |-> NoError, pth |-> PathJoin(a, b)]
    ELSE [err |-> "AttributeError", pth |-> <<>>]

RECURSIVE Watch_add(_, _, _, _)
\* _Watch.add: the resolution loop, then addleaf
Watch_add(st, wid, pth, linkdepth) ==
    LET \* pth = os.join(...); linkdepth += 1; and round the loop again
        Advance(s1, j) ==
            IF j.err # NoError THEN [s1 EXCEPT !.err = j.err]
            ELSE Watch_add(s1, wid, j.pth, linkdepth + 1)
        \* s1: the state after the try block, its err the exception raised
        Step(rl, s1) ==
            IF s1.err = NoError THEN Advance(s1, OsJoin(Dirname(pth), rl.link))
            ELSE \* except OSError as e
                 IF "errno" \notin OsAttrs THEN [s1 EXCEPT !.err = "AttributeError"]
                 ELSE IF s1.err = "EINVAL"
                 THEN Watch_addleaf([s1 EXCEPT !.err = NoError], wid, pth)
                 ELSE IF s1.err \in {"ENOENT", "ENOTDIR"}
                 THEN IF linkdepth = 0
                      THEN [s1 EXCEPT !.err = RaiseName("InotifyWatcherException")]
                      ELSE [s1 EXCEPT !.err = NoError]
                 ELSE s1
        Try(rl) ==
            Step(rl, IF rl.err = NoError THEN Watch_addlink(st, wid, pth)
                     ELSE [st EXCEPT !.err = rl.err])
    IN  Try(Readlink(pth))

\* _Watch.__init__
Watch_init(desc, k, wid, pth, mask) ==
    Watch_add([desc |-> desc, kern |-> k, links |-> <<>>, inode |-> 0,
               mask |-> mask, wd |-> 0, err |-> NoError],
              wid, pth, 0)

-----------------------------------------------------------------------------
(* Events.                                                                 *)

\* Event.__init__(raw, path): mask, cookie and name are the raw event's
Event(raw, pth) ==
    [path |-> pth, mask |-> raw.mask, cookie |-> raw.cookie, name |-> raw.name,
     wd |-> raw.wd]

\* Event.fullpath
Event_fullpath(e) ==
    IF e.name # None /\ e.name # <<>> THEN PathJoin(e.path, e.name) ELSE e.path

\* semirawevent(mask=IN_LINK_CHANGED, cookie=0, name=None, wd=event.wd)
Semirawevent(event) ==
    [mask |-> IN_LINK_CHANGED, cookie |-> 0, name |-> None, wd |-> event.wd]

\* _Watch.handle_event without the test of the link's index
Watch_handle_event_AnyIndex(w, event, idx) ==
    IF (event.mask \cap w.mask) # {}
    THEN << Event(event, JoinAll(w.path)) >>
    ELSE << Event(Semirawevent(event), JoinAll(w.path)) >>

\* _Watch.handle_event without the test of the requested mask
Watch_handle_event_AnyMask(w, event, idx) ==
    IF idx = Len(w.links) - 1
    THEN << Event(event, JoinAll(w.path)) >>
    ELSE << Event(Semirawevent(event), JoinAll(w.path)) >>

\* _Watch.handle_event(event, pth): w the _Watch, idx the index of the _Link
Watch_handle_event(w, event, idx) ==
    IF idx = Len(w.links) - 1 /\ (event.mask \cap w.mask) # {}
    THEN << Event(event, JoinAll(w.path)) >>
    ELSE << Event(Semirawevent(event), JoinAll(w.path)) >>

\* _Link.handle_event
Link_handle_event(ws, cb, event) == Watch_handle_event(ws[cb.watch], event, cb.idx)

\* the filter of _Descriptor.handle_event without the test of the name
CallbackMatches_AnyName(c, event) == (event.mask \cap c.mask) # {}

\* the filter of _Descriptor.handle_event on one registration
CallbackMatches(c, event) ==
    (event.mask \cap c.mask) # {} /\ (c.name = None \/ c.name = event.name)

RECURSIVE Descriptor_callbacks_Reversed(_, _, _)
\* _Descriptor.handle_event that yields a later callback's Events first
Descriptor_callbacks_Reversed(ws, cbs, event) ==
    LET Call(c, out, rest) ==
            IF CallbackMatches(c, event)
            THEN [events |-> rest.events \o out,
                  log |-> rest.log \o <<[raw |-> event, cb |-> c.cb, out |-> out]>>]
            ELSE rest
    IN  IF cbs = <<>> THEN [events |-> <<>>, log |-> <<>>]
        ELSE Call(Head(cbs), Link_handle_event(ws, Head(cbs).cb, event),
                  Descriptor_callbacks_Reversed(ws, Tail(cbs), event))

RECURSIVE Descriptor_callbacks(_, _, _)
\* the loop of _Descriptor.handle_event over the callbacks: the Events
\* yielded, and a record of each callback invoked
Descriptor_callbacks(ws, cbs, event) ==
    LET Call(c, out, rest) ==
            IF CallbackMatches(c, event)
            THEN [events |-> out \o rest.events,
                  log |-> <<[raw |-> event, cb |-> c.cb, out |-> out]>> \o rest.log]
            ELSE rest
    IN  IF cbs = <<>> THEN [events |-> <<>>, log |-> <<>>]
        ELSE Call(Head(cbs), Link_handle_event(ws, Head(cbs).cb, event),
                  Descriptor_callbacks(ws, Tail(cbs), event))

\* _Descriptor.handle_event decides, after the loop, to call _removewatch
Descriptor_removes(event) == (event.mask \cap IN_IGNORED) # {}

\* Watcher._removewatch that leaves the registry as it is
Watcher_removewatch_Kept(desc, wd) == desc

\* Watcher._removewatch
Watcher_removewatch(desc, wd) == [x \in DOMAIN desc \ {wd} |-> desc[x]]

RECURSIVE ReadLoop(_, _, _)
\* the loop of Watcher.read over the raw events: a missing descriptor raises
\* KeyError and ends the call
ReadLoop(ws, desc, evts) ==
    LET Collect(h, rest) ==
            [err |-> rest.err, events |-> h.events \o rest.events,
             log |-> h.log \o rest.log, desc |-> rest.desc]
        Handle(evt) ==
            IF evt.wd \notin DOMAIN desc
            THEN [err |-> "KeyError", events |-> <<>>, log |-> <<>>, desc |-> desc]
            ELSE Collect(Descriptor_callbacks(ws, desc[evt.wd].callbacks, evt),
                         ReadLoop(ws, IF Descriptor_removes(evt)
                                      THEN Watcher_removewatch(desc, evt.wd) ELSE desc,
                                  Tail(evts)))
    IN  IF evts = <<>>
        THEN [err |-> NoError, events |-> <<>>, log |-> <<>>, desc |-> desc]
        ELSE Handle(Head(evts))

\* Watcher.read that forgets to extend the buffer
ReadStore_Dropped(buf, events, store_events) == buf

\* the end of Watcher.read: the buffer after `if store_events: extend`
ReadStore(buf, events, store_events) ==
    IF store_events THEN buf \o events ELSE buf

\* the bufsize Watcher.read passes to inotify.read
EffectiveBufsize(block, bufsize) ==
    IF ~block THEN "0" ELSE IF bufsize = "0" THEN "None" ELSE bufsize

-----------------------------------------------------------------------------
(* Inputs.                                                                 *)

\* the path strings passed to Watcher.add
AddPaths ==
    { <<"/", "d", "/", "f">>,            \* a file, absolute
      <<"f">>,                           \* the same file, relative
      <<"/", "d">>,                      \* a directory
      <<"/", "d", "/", "l">>,            \* a symbolic link to a file
      <<"/", "d", "/", "x">>,            \* a dangling symbolic link
      <<"l">>,                           \* a symbolic link, bare relative name
      <<"/", "d", "/", "n">>,            \* no such entry
      <<"/", "d", "/", "f", "/", "n">> } \* below a file

\* the masks passed to Watcher.add
UserMasks == { {"IN_MODIFY"}, {"IN_CREATE", "IN_DELETE_SELF"} }

\* entry names the kernel reports in a directory
EntryNames == { Kl, Kf }

\* the raw events the kernel can have queued for a descriptor: those its
\* mask asks for, and IN_IGNORED once it has removed the watch
KernelEvents(k, wd) ==
    LET m == k.w[wd].mask
        dir == k.w[wd].ino \in {1, 2}
        self == m \cap (IF dir THEN SelfFlags ELSE SelfFlags \cup {"IN_MODIFY"})
        entry == IF dir THEN m \cap {"IN_CREATE", "IN_MOVED_FROM"} ELSE {}
    IN  { [wd |-> wd, mask |-> {f}, cookie |-> 0, name |-> None] : f \in self }
        \cup { [wd |-> wd, mask |-> {f},
                cookie |-> IF f = "IN_MOVED_FROM" THEN 1 ELSE 0, name |-> n]
               : f \in entry, n \in EntryNames }
        \cup IF k.w[wd].gone
             THEN { [wd |-> wd, mask |-> IN_IGNORED, cookie |-> 0, name |-> None] }
             ELSE {}

\* the kernel's queue-overflow event: it belongs to no descriptor
OverflowEvent == [wd |-> -1, mask |-> IN_Q_OVERFLOW, cookie |-> 0, name |-> None]

\* what inotify.read(fd, bufsize) can return: everything queued, in order.
\* IN_IGNORED is queued once for each removed watch and is its last event;
\* the kernel merges an event equal to the one queued before it
Batches(k) ==
    LET evs == UNION { KernelEvents(k, wd) : wd \in DOMAIN k.w }
                  \cup (IF DOMAIN k.w # {} THEN {OverflowEvent} ELSE {})
        gone == {wd \in DOMAIN k.w : k.w[wd].gone}
        Ign(b, wd) == {i \in 1..Len(b) : b[i].wd = wd /\ b[i].mask = IN_IGNORED}
    IN  { b \in UNION { [1..n -> evs] : n \in 0..MaxQueue } :
            /\ \A wd \in gone :
                 /\ Cardinality(Ign(b, wd)) = 1
                 /\ \A i \in Ign(b, wd) : \A j \in (i + 1)..Len(b) : b[j].wd # wd
            /\ \A i \in 1..(Len(b) - 1) : b[i] # b[i + 1] }

\* the kernel after the batch was read: the removed watches are forgotten
KAfterRead(k) ==
    [k EXCEPT !.w = [wd \in {x \in DOMAIN k.w : ~k.w[x].gone} |-> k.w[wd]]]

-----------------------------------------------------------------------------
(* The state machine.                                                      *)

\* the record of a call's outcome
Outcome(op, err) ==
    [op |-> op, err |-> err, pth |-> <<>>, mask |-> {}, existed |-> FALSE, wid |-> 0,
     store |-> FALSE, isNone |-> TRUE, events |-> <<>>,
     lowread |-> FALSE, batch |-> <<>>, log |-> <<>>,
     prebuffer |-> <<>>, prewds |-> {}]

\* the bufsize values inotify.read gets, over the block and bufsize
\* arguments of Watcher.read
ReadBufsizes ==
    { EffectiveBufsize(block, bufsize) : block \in BOOLEAN, bufsize \in {"None", "0"} }

\* no call is waiting to be taken
Idle == Outcome("idle", NoError)

\* Watcher.__init__
Init ==
    /\ watchdescriptors = << >>
    /\ paths = << >>
    /\ buffer = << >>
    /\ watches = << >>
    /\ closed = FALSE
    /\ kern = [w |-> << >>, next |-> 1]
    /\ ret = Idle

\* Watcher.add(pth, mask); r is what _Watch(self, pth, mask) leaves behind
Watcher_add(pth, mask) ==
    LET existed == pth \in DOMAIN paths
        wid == Len(watches) + 1
        out == [Outcome("add", NoError) EXCEPT !.pth = pth, !.mask = mask,
                    !.existed = existed, !.prewds = DOMAIN watchdescriptors]
    IN  /\ ret = Idle
        /\ ~closed
        /\ IF existed /\ "update_mask" \notin WatchAttrs
           THEN \* self._paths[pth].update_mask raises before anything changes
                /\ ret' = [out EXCEPT !.err = "AttributeError"]
                /\ UNCHANGED <<watchdescriptors, paths, watches, kern>>
           ELSE \E r \in {Watch_init(watchdescriptors, kern, wid, pth, mask)} :
                \E registered \in {r.desc # watchdescriptors} :
                /\ registered => Len(watches) < MaxWatches
                /\ watchdescriptors' = r.desc
                /\ kern' = r.kern
                /\ watches' = IF registered
                              THEN Append(watches,
                                       [path |-> NormPath(pth), cwd |-> Cwd, mask |-> mask,
                                        links |-> r.links, inode |-> r.inode])
                              ELSE watches
                /\ paths' = IF r.err = NoError THEN (pth :> wid) @@ paths ELSE paths
                /\ ret' = [out EXCEPT !.err = r.err,
                                      !.wid = IF registered THEN wid ELSE 0,
                                      !.isNone = r.err # NoError]
        /\ UNCHANGED <<buffer, closed>>

\* Watcher.read(block, bufsize, store_events), bufsize being the one passed
\* on to inotify.read; batch is what inotify.read returns when it is called
Watcher_read(bufsize, store_events) ==
    LET out == [Outcome("read", NoError) EXCEPT !.store = store_events,
                    !.prebuffer = buffer, !.prewds = DOMAIN watchdescriptors]
    IN  /\ ret = Idle
        /\ ~closed
        /\ IF buffer # <<>>
           THEN /\ buffer' = <<>>
                /\ ret' = [out EXCEPT !.isNone = FALSE, !.events = buffer]
                /\ UNCHANGED <<watchdescriptors, kern>>
           ELSE IF DOMAIN watchdescriptors = {}
           THEN /\ ret' = [out EXCEPT !.err = RaiseName("NoFilesException")]
                /\ UNCHANGED <<watchdescriptors, buffer, kern>>
           ELSE \E batch \in Batches(kern) :
                \E r \in {ReadLoop(watches, watchdescriptors, batch)} :
                    \* a blocking inotify.read returns once an event is queued
                    /\ IF bufsize = "0" THEN TRUE ELSE batch # <<>>
                    /\ kern' = KAfterRead(kern)
                    /\ watchdescriptors' = r.desc
                    /\ buffer' = IF r.err = NoError
                                 THEN ReadStore(buffer, r.events, store_events)
                                 ELSE buffer
                    /\ ret' = [out EXCEPT !.err = r.err, !.lowread = TRUE,
                                   !.batch = batch, !.log = r.log,
                                   !.isNone = (r.err # NoError \/ store_events),
                                   !.events = IF r.err = NoError /\ ~store_events
                                              THEN r.events ELSE <<>>]
        /\ UNCHANGED <<paths, watches, closed>>

\* Watcher.close()
Watcher_close ==
    /\ ret = Idle
    /\ ~closed
    /\ closed' = TRUE
    /\ ret' = Outcome("close", NoError)
    /\ UNCHANGED <<watchdescriptors, paths, buffer, watches, kern>>

\* the kernel removes a watch (its entry was deleted or unmounted) and
\* queues IN_IGNORED for it
KernelRemove(wd) ==
    /\ ret = Idle
    /\ ~closed
    /\ ~kern.w[wd].gone
    /\ Cardinality({x \in DOMAIN kern.w : kern.w[x].gone}) < MaxQueue
    /\ kern' = [kern EXCEPT !.w[wd].gone = TRUE]
    /\ UNCHANGED <<watchdescriptors, paths, buffer, watches, closed, ret>>

\* the caller takes the outcome of the call that returned
Return ==
    /\ ret # Idle
    /\ ret' = Idle
    /\ UNCHANGED <<watchdescriptors, paths, buffer, watches, closed, kern>>

Next ==
    \/ \E pth \in AddPaths, mask \in UserMasks : Watcher_add(pth, mask)
    \/ \E bufsize \in ReadBufsizes, store_events \in BOOLEAN :
           Watcher_read(bufsize, store_events)
    \/ Watcher_close
    \/ \E wd \in DOMAIN kern.w : KernelRemove(wd)
    \/ Return

Spec == Init /\ [][Next]_vars

-----------------------------------------------------------------------------
(* _Watch.handle_event as a function: a _Watch with a chain of up to       *)
(* MaxChain links, as the resolution loop builds them, is handed every     *)
(* raw event on every one of its links.                                    *)

\* a chain of n links: symlink segments, then the leaf, or for a dangling
\* link another segment
ChainOf(n, leafEnded) ==
    [i \in 1..n |->
        IF i = n /\ leafEnded
        THEN [idx |-> i - 1, watch |-> 1, mask |-> LeafMask({}), path |-> <<"/", "d", "/", "f">>,
              name |-> None, wd |-> i]
        ELSE [idx |-> i - 1, watch |-> 1, mask |-> LinkMask, path |-> <<"/", "d">>,
              name |-> Kl, wd |-> i]]

\* the raw events handed to handle_event
RawEvents(wd) ==
    { [wd |-> wd, mask |-> {f}, cookie |-> IF f = "IN_MOVED_FROM" THEN 1 ELSE 0, name |-> n]
      : f \in {"IN_MODIFY", "IN_CREATE", "IN_DELETE_SELF", "IN_MOVED_FROM", "IN_IGNORED"},
        n \in {None, Kl} }

InitHandle ==
    /\ \E n \in 1..MaxChain, leafEnded \in BOOLEAN, mask \in UserMasks :
           watches = << [path |-> <<Kd, Kl>>, cwd |-> Cwd, mask |-> mask,
                         links |-> ChainOf(n, leafEnded),
                         inode |-> IF leafEnded THEN 3 ELSE 0] >>
    /\ watchdescriptors = << >>
    /\ paths = << >>
    /\ buffer = << >>
    /\ closed = FALSE
    /\ kern = [w |-> << >>, next |-> 1]
    /\ ret = Idle

\* _Link.handle_event(event) on the link idx of the _Watch
CallHandleEvent(idx, event) ==
    /\ ret = Idle
    /\ ret' = [Outcome("handle_event", NoError) EXCEPT
                  !.log = << [raw |-> event, cb |-> [watch |-> 1, idx |-> idx],
                              out |-> Link_handle_event(watches, [watch |-> 1, idx |-> idx],
                                                        event)] >>]
    /\ UNCHANGED <<watchdescriptors, paths, buffer, watches, closed, kern>>

NextHandle ==
    \/ \E l \in DOMAIN watches[1].links :
           \E event \in RawEvents(watches[1].links[l].wd) :
               CallHandleEvent(watches[1].links[l].idx, event)
    \/ Return

SpecHandle == InitHandle /\ [][NextHandle]_vars

-----------------------------------------------------------------------------
(* The computation of IN_LINK_CHANGED when the module is imported, for     *)
(* every table of constants of up to MaxFlags values of MaxBits bits.      *)

RECURSIVE BitOr(_, _)
\* a | b
BitOr(a, b) ==
    IF a = 0 THEN b
    ELSE IF b = 0 THEN a
    ELSE (IF a % 2 = 1 \/ b % 2 = 1 THEN 1 ELSE 0) + 2 * BitOr(a \div 2, b \div 2)

RECURSIVE BitAnd(_, _)
\* a & b
BitAnd(a, b) ==
    IF a = 0 \/ b = 0 THEN 0
    ELSE (IF a % 2 = 1 /\ b % 2 = 1 THEN 1 ELSE 0) + 2 * BitAnd(a \div 2, b \div 2)

RECURSIVE Reduce_or(_)
\* functools.reduce(operator.or_, constants.values())
Reduce_or(values) ==
    LET Rest(v) == IF values = {v} THEN v ELSE BitOr(v, Reduce_or(values \ {v}))
    IN  Rest(CHOOSE v \in values : TRUE)

RECURSIVE LinkChangedLoop(_, _)
\* while inotify.IN_LINK_CHANGED < inotify_builtin_constants: <<= 1
LinkChangedLoop(x, builtin) ==
    IF x < builtin THEN LinkChangedLoop(2 * x, builtin) ELSE x

\* the tables of constants: the values of the flags
ConstantTables ==
    { t \in SUBSET (1..(2^MaxBits - 1)) : t # {} /\ Cardinality(t) <= MaxFlags }

\* the module is imported with a table of constants
ImportModule(constants) ==
    /\ ret = Idle
    /\ \E builtin \in {Reduce_or(constants)} :
           ret' = [op |-> "import", constants |-> constants,
                   inotify_builtin_constants |-> builtin,
                   IN_LINK_CHANGED |-> LinkChangedLoop(1, builtin)]
    /\ UNCHANGED <<watchdescriptors, paths, buffer, watches, closed, kern>>

NextImport ==
    \/ \E constants \in ConstantTables : ImportModule(constants)
    \/ Return

SpecImport == Init /\ [][NextImport]_vars

-----------------------------------------------------------------------------
(* Properties.                                                             *)

\* an Event that carries a raw event's mask, cookie and name
IsRealOf(e, raw) ==
    e.mask = raw.mask /\ e.cookie = raw.cookie /\ e.name = raw.name
    /\ "IN_LINK_CHANGED" \notin e.mask

\* the synthetic link-changed Event
IsSynthetic(e) == e.mask = IN_LINK_CHANGED /\ e.cookie = 0 /\ e.name = None

\* the _Link a callback belongs to
LinkOf(cb) == watches[cb.watch].links[cb.idx + 1]

RECURSIVE Collected(_)
\* the Events the callbacks of a read yielded, in order
Collected(log) == IF log = <<>> THEN <<>> ELSE Head(log).out \o Collected(Tail(log))

\* the elements of a sequence
Range(seq) == { seq[i] : i \in DOMAIN seq }

-----------------------------------------------------------------------------
(* C1: buffering of read.                                                  *)

\* what a read that has returned shows
C1_Read ==
    ret.op = "read" =>
        \* a read that finds Events buffered returns exactly those, in order,
        \* leaves the buffer empty and reads nothing from the kernel
        /\ ret.prebuffer # <<>> =>
               /\ ret.err = NoError /\ ~ret.isNone
               /\ ret.events = ret.prebuffer
               /\ buffer = <<>>
               /\ ~ret.lowread
        \* a read that finds the buffer empty reads from the kernel, when the
        \* descriptor registry is not empty
        /\ (ret.prebuffer = <<>> /\ ret.prewds # {}) => ret.lowread
        /\ (ret.prebuffer = <<>> /\ ret.prewds = {}) => (~ret.lowread /\ ret.err # NoError)
        \* a storing read that completes returns None and buffers what it
        \* collected
        /\ (ret.lowread /\ ret.store /\ ret.err = NoError) =>
               /\ ret.isNone /\ ret.events = <<>>
               /\ buffer = Collected(ret.log)

\* the buffer changes only when read fills it, empty before, or read
\* returns all of it
C1_Step ==
    buffer' # buffer =>
        /\ ret'.op = "read"
        /\ \/ buffer = <<>> /\ ret'.store /\ ret'.lowread
           \/ buffer' = <<>> /\ ret'.events = buffer

\* C1: Watcher.read with store_events=True returns None and appends the
\* Events it collected to the buffer; the next read, whatever its
\* arguments, returns exactly the buffered Events in order, empties the
\* buffer and performs no low-level read; a read that finds the buffer
\* empty performs a low-level read provided the descriptor registry is not
\* empty, and fails without one otherwise.  So every buffered Event is
\* returned exactly once.
Thm_C1_ReadBuffering == []C1_Read /\ [][C1_Step]_vars

\* a read returned two buffered Events without a low-level read
Wit_C1_Drained ==
    /\ ret.op = "read" /\ ~ret.lowread
    /\ Len(ret.prebuffer) >= 2 /\ ret.events = ret.prebuffer /\ buffer = <<>>

\* C1 as stated, for a Watcher that holds a Watch: every read that finds
\* the buffer empty performs a low-level read
Cex_C1_AlwaysFreshRead ==
    (ret.op = "read" /\ ret.prebuffer = <<>> /\ DOMAIN paths # {}) => ret.lowread

-----------------------------------------------------------------------------
(* C2: read with an empty descriptor registry.                             *)

\* C2 as stated: a read with the buffer empty and no descriptor registered
\* fails with NoFilesException, without a low-level read
Cex_C2_NoFilesException ==
    (ret.op = "read" /\ ret.prebuffer = <<>> /\ ret.prewds = {}) =>
        (ret.err = "NoFilesException" /\ ~ret.lowread)

-----------------------------------------------------------------------------
(* C3: _Watch.handle_event.                                                *)

\* what handle_event is to yield for a raw event on the link of a callback
C3_Entry(e) ==
    LET Yields(w) ==
            /\ Len(e.out) = 1
            /\ IF e.cb.idx = Len(w.links) - 1 /\ (e.raw.mask \cap w.mask) # {}
               THEN IsRealOf(e.out[1], e.raw) /\ ~IsSynthetic(e.out[1])
               ELSE IsSynthetic(e.out[1]) /\ ~IsRealOf(e.out[1], e.raw)
    IN  Yields(watches[e.cb.watch])

-----------------------------------------------------------------------------
(* C4: self-delete and self-move on the leaf.                              *)

\* the number of times a raw event is in the batch a read got
BatchCount(raw) == Cardinality({ i \in DOMAIN ret.batch : ret.batch[i] = raw })

\* the callbacks a read invoked for a raw event on a link
LogEntries(raw, cb) ==
    { i \in DOMAIN ret.log : ret.log[i].raw = raw /\ ret.log[i].cb = cb }

\* the leaf links of the Watches, as callbacks
LeafCallbacks ==
    { [watch |-> w, idx |-> l - 1] :
          w \in DOMAIN watches, l \in 1..MaxChain } \cap
    { cb \in [watch : DOMAIN watches, idx : 0..(MaxChain - 1)] :
          /\ cb.idx + 1 \in DOMAIN watches[cb.watch].links
          /\ LinkOf(cb).name = None /\ LinkOf(cb).idx = cb.idx }

\* the self-deleted and self-moved events of the batch on a leaf's descriptor
SelfEventsOn(cb) ==
    { raw \in Range(ret.batch) : raw.wd = LinkOf(cb).wd /\ (raw.mask \cap SelfFlags) # {} }

\* the Events a read that completed delivers: returned, or buffered
Delivered == IF ret.store THEN buffer ELSE ret.events

-----------------------------------------------------------------------------
(* C5: events on symlink segments.                                         *)

\* C5 as stated: a raw event that passes the descriptor's filter for a
\* Link with a name filter yields exactly one synthetic Event, never a real
\* one, whatever the Watch and the requested mask
Cex_C5_SegmentSynthetic ==
    ret.op = "read" =>
        \A i \in DOMAIN ret.log :
            LinkOf(ret.log[i].cb).name # None =>
                /\ Len(ret.log[i].out) = 1
                /\ IsSynthetic(ret.log[i].out[1])

-----------------------------------------------------------------------------
(* C6, C7, C8: what add is to build, read off the file system.             *)

RECURSIVE ExpectedChain(_, _)
\* the steps of a resolution: for each symbolic link on the way its parent
\* directory and entry name, then how it ends: at an entry that is no
\* symbolic link ("entry"), or at nothing ("missing")
ExpectedChain(pth, fuel) ==
    LET Next1(split, rest) ==
            [rest EXCEPT !.segments = <<[path |-> split[1], name |-> split[2]]>> \o @]
        Of(rl) ==
            IF rl.err = NoError /\ fuel > 0
            THEN Next1(PathSplit(pth),
                       ExpectedChain(PathJoin(Dirname(pth), rl.link), fuel - 1))
            ELSE [segments |-> <<>>, last |-> pth,
                  ends |-> IF rl.err = "EINVAL" THEN "entry" ELSE "missing"]
    IN  Of(Readlink(pth))

\* the Watch the path registry holds for a path
WatchAt(pth) == watches[paths[pth]]

\* the links of a Watch are the segments of a chain, in order
SegmentsAre(w, chain) ==
    \A i \in DOMAIN chain.segments :
        /\ i \in DOMAIN w.links
        /\ w.links[i].idx = i - 1
        /\ w.links[i].name = chain.segments[i].name
        /\ w.links[i].name # None
        /\ w.links[i].path = chain.segments[i].path

\* an add of a path the path registry did not hold has returned
FirstAdd == ret.op = "add" /\ ~ret.existed

\* C6 as stated: for a path that resolves through N >= 0 symbolic links to
\* an existing entry that is no symbolic link, add succeeds and the Watch
\* has N+1 Links, Link i with index i, the first N with the name filters
\* and parent directories of the steps, the last the leaf with no filter
Cex_C6_ChainOfLinks ==
    LET Holds(chain) ==
            chain.ends = "entry" =>
                /\ ret.err = NoError
                /\ ret.pth \in DOMAIN paths
                /\ Len(WatchAt(ret.pth).links) = Len(chain.segments) + 1
                /\ SegmentsAre(WatchAt(ret.pth), chain)
                /\ WatchAt(ret.pth).links[Len(chain.segments) + 1].name = None
                /\ WatchAt(ret.pth).links[Len(chain.segments) + 1].idx = Len(chain.segments)
    IN  FirstAdd => Holds(ExpectedChain(ret.pth, MaxChain))

\* C7 as stated: add of a path whose first resolution step finds no entry
\* fails with InotifyWatcherException, registers no Link and adds no entry
\* to the path registry
Cex_C7_NotFound ==
    LET Holds(chain) ==
            (chain.ends = "missing" /\ chain.segments = <<>>) =>
                /\ ret.err = "InotifyWatcherException"
                /\ ret.wid = 0
                /\ DOMAIN watchdescriptors = ret.prewds
                /\ ret.pth \notin DOMAIN paths
    IN  FirstAdd => Holds(ExpectedChain(ret.pth, MaxChain))

\* C8 as stated: add of a symbolic link (or chain of them) whose final
\* target does not exist raises nothing and stores a Watch whose chain is
\* the non-leaf Links registered before the missing target
Cex_C8_DanglingSucceeds ==
    LET Holds(chain) ==
            (chain.ends = "missing" /\ chain.segments # <<>>) =>
                /\ ret.err = NoError
                /\ ret.pth \in DOMAIN paths
                /\ Len(WatchAt(ret.pth).links) = Len(chain.segments)
                /\ SegmentsAre(WatchAt(ret.pth), chain)
    IN  FirstAdd => Holds(ExpectedChain(ret.pth, MaxChain))

-----------------------------------------------------------------------------
(* C9: the chains of the Watches in the path registry.                     *)

-----------------------------------------------------------------------------
(* C10: add of a path the path registry holds.                             *)

\* C10 as stated: add(path, mask2) for a path string the path registry
\* holds succeeds, and a new Watch with new Links replaces the old entry
Cex_C10_ReAddReplaces ==
    (ret.op = "add" /\ ret.existed) =>
        /\ ret.err = NoError
        /\ ret.wid # 0
        /\ paths[ret.pth] = ret.wid
        /\ WatchAt(ret.pth).mask = ret.mask

-----------------------------------------------------------------------------
(* C11: the descriptor registry.                                           *)

\* each key of the registry is the wd of the _Descriptor it holds
C11_Keys ==
    \A wd \in DOMAIN watchdescriptors : watchdescriptors[wd].wd = wd

\* the entry _createwatch appends for the first link of the Watch an add made
C11_Entry(w) ==
    [mask |-> w.links[1].mask, name |-> w.links[1].name,
     cb |-> [watch |-> w.links[1].watch, idx |-> 0]]

\* an add that registered a link on a wd the registry held made no new
\* _Descriptor and appended one entry to that one, after the earlier ones;
\* every other _Descriptor is as it was
C11_Step ==
    (ret'.op = "add" /\ ret'.wid # 0) =>
        LET Appended(w, wd) ==
                /\ \A x \in DOMAIN watchdescriptors \ {wd} :
                       x \in DOMAIN watchdescriptors'
                       /\ watchdescriptors'[x] = watchdescriptors[x]
                /\ wd \in DOMAIN watchdescriptors =>
                       /\ DOMAIN watchdescriptors' = DOMAIN watchdescriptors
                       /\ watchdescriptors'[wd].callbacks =
                              Append(watchdescriptors[wd].callbacks, C11_Entry(w))
                /\ wd \notin DOMAIN watchdescriptors =>
                       /\ DOMAIN watchdescriptors' = DOMAIN watchdescriptors \cup {wd}
                       /\ watchdescriptors'[wd].callbacks = << C11_Entry(w) >>
        IN  Appended(watches'[ret'.wid], watches'[ret'.wid].links[1].wd)

\* C11: the descriptor registry maps each low-level descriptor id to one
\* _Descriptor whose own id is its key; a _createwatch whose add_watch
\* returns an id the registry holds makes no new _Descriptor and appends
\* exactly one (mask, name, callback) entry to the one it holds, the
\* earlier entries kept in registration order.
Thm_C11_DescriptorRegistry == []C11_Keys /\ [][C11_Step]_vars

\* a _Descriptor holds the entries of two Watches, in registration order
Wit_C11_SharedDescriptor ==
    \E wd \in DOMAIN watchdescriptors :
        /\ Len(watchdescriptors[wd].callbacks) = 2
        /\ watchdescriptors[wd].callbacks[1].cb.watch = 1
        /\ watchdescriptors[wd].callbacks[2].cb.watch = 2
        /\ ret.op = "add" /\ ret.wid = 2

-----------------------------------------------------------------------------
(* C12: removal of a _Descriptor.                                          *)

\* the descriptors whose IN_IGNORED is in the batch a read got
IgnoredIn(batch) ==
    { batch[i].wd : i \in { j \in DOMAIN batch : (batch[j].mask \cap IN_IGNORED) # {} } }

\* a read invokes a callback only through the _Descriptor of its Link's wd,
\* which the registry held when the read began; a read that processed its
\* batch leaves no _Descriptor whose IN_IGNORED was in it
C12_Read ==
    (ret.op = "read" /\ ret.lowread) =>
        /\ \A i \in DOMAIN ret.log :
               /\ LinkOf(ret.log[i].cb).wd = ret.log[i].raw.wd
               /\ ret.log[i].raw.wd \in ret.prewds
        /\ DOMAIN watchdescriptors \subseteq ret.prewds
        /\ ret.err = NoError =>
               DOMAIN watchdescriptors = ret.prewds \ IgnoredIn(ret.batch)

\* every wd of the registry and of a Link is one the kernel has handed out
C12_Known ==
    /\ \A wd \in DOMAIN watchdescriptors : wd < kern.next
    /\ \A w \in DOMAIN watches : \A l \in DOMAIN watches[w].links :
           watches[w].links[l].wd < kern.next

\* a wd that enters the registry is a new one of the kernel: a removed wd
\* never comes back
C12_Step ==
    \A wd \in DOMAIN watchdescriptors' \ DOMAIN watchdescriptors : wd >= kern.next

\* C12: after read has processed a raw event carrying IN_IGNORED for a
\* _Descriptor, the registry no longer holds it, with all the entries of
\* the Links that share the wd, and no callback of a Link registered on it
\* is invoked again, by a later raw event of the batch or in a later read.
Thm_C12_RemovedForGood == [](C12_Read /\ C12_Known) /\ [][C12_Step]_vars

\* a read processed the IN_IGNORED of a wd that two Watches shared and the
\* registry lost its _Descriptor
Wit_C12_SharedRemoved ==
    /\ ret.op = "read" /\ ret.lowread /\ ret.err = NoError
    /\ \E wd \in IgnoredIn(ret.batch) :
           /\ wd \in ret.prewds /\ wd \notin DOMAIN watchdescriptors
           /\ Cardinality({ w \in DOMAIN watches : watches[w].links[1].wd = wd }) = 2

-----------------------------------------------------------------------------
(* C13: queue overflow.                                                    *)

\* C13 as stated: a batch with the kernel's IN_Q_OVERFLOW event does not
\* make read fail; read delivers an Event carrying IN_Q_OVERFLOW, with the
\* Events of the other raw events of the batch
Cex_C13_OverflowDelivered ==
    (ret.op = "read" /\ ret.lowread /\ OverflowEvent \in Range(ret.batch)) =>
        /\ ret.err = NoError
        /\ \E i \in DOMAIN Delivered : IN_Q_OVERFLOW \subseteq Delivered[i].mask
        /\ \A i \in DOMAIN ret.log : ret.log[i].out[1] \in Range(Delivered)

-----------------------------------------------------------------------------
(* C14: IN_IGNORED.                                                        *)

\* the Links registered on a wd when a read began, as callbacks
LinksOn(wd) ==
    { cb \in [watch : DOMAIN watches, idx : 0..(MaxChain - 1)] :
          /\ cb.idx + 1 \in DOMAIN watches[cb.watch].links
          /\ LinkOf(cb).wd = wd }

\* C14 as stated: the read that processes the IN_IGNORED of a registered
\* _Descriptor delivers an Event carrying IN_IGNORED for each Link
\* registered on it, and removes the _Descriptor
Cex_C14_IgnoredDelivered ==
    (ret.op = "read" /\ ret.lowread /\ ret.err = NoError) =>
        \A wd \in IgnoredIn(ret.batch) \cap ret.prewds :
            /\ wd \notin DOMAIN watchdescriptors
            /\ \A cb \in LinksOn(wd) :
                   \E i \in DOMAIN ret.log :
                       /\ ret.log[i].cb = cb
                       /\ IN_IGNORED \subseteq ret.log[i].raw.mask
                       /\ IN_IGNORED \subseteq ret.log[i].out[1].mask
                       /\ ret.log[i].out[1] \in Range(Delivered)

-----------------------------------------------------------------------------
(* C15: the path of an Event.                                              *)

\* C15 as stated: for a path string F, absolute or relative, that names a
\* plain file watched for IN_MODIFY, a raw IN_MODIFY on the leaf's
\* descriptor makes read deliver exactly one Event for the Watch, its
\* fullpath F, IN_MODIFY set and the link-changed flag clear
Cex_C15_FullPathIsRequested ==
    (ret.op = "read" /\ ret.lowread /\ ret.err = NoError) =>
        \A F \in DOMAIN paths :
            \A cb \in { c \in LeafCallbacks : c.watch = paths[F] } :
                \A raw \in { r \in Range(ret.batch) :
                                 r.wd = LinkOf(cb).wd /\ r.mask = {"IN_MODIFY"} } :
                    ("IN_MODIFY" \in WatchAt(F).mask /\ WatchAt(F).inode = 3) =>
                        /\ Cardinality(LogEntries(raw, cb)) = BatchCount(raw)
                        /\ \A i \in LogEntries(raw, cb) :
                               /\ Len(ret.log[i].out) = 1
                               /\ ret.log[i].out[1] \in Range(Delivered)
                               /\ Event_fullpath(ret.log[i].out[1]) = F
                               /\ "IN_MODIFY" \in ret.log[i].out[1].mask
                               /\ "IN_LINK_CHANGED" \notin ret.log[i].out[1].mask

-----------------------------------------------------------------------------
(* C16: the order of the Events of a read.                                 *)

\* the place of a callback in the order of registration: Watches are made
\* one after the other, and each registers its Links by index
RegistrationRank(cb) == cb.watch * MaxChain + cb.idx

RECURSIVE InRegistrationOrder(_)
\* a set of callbacks as a sequence, in the order of registration
InRegistrationOrder(cbs) ==
    LET First(c) == <<c>> \o InRegistrationOrder(cbs \ {c})
    IN  IF cbs = {} THEN <<>>
        ELSE First(CHOOSE c \in cbs :
                       \A o \in cbs : RegistrationRank(c) <= RegistrationRank(o))

RECURSIVE DispatchOrder(_)
\* every (raw event, callback) pair of a batch: the raw events in the order
\* of the batch, the callbacks on the raw event's wd in registration order
DispatchOrder(batch) ==
    LET Pairs(raw, cbs) == [i \in DOMAIN cbs |-> [raw |-> raw, cb |-> cbs[i]]]
    IN  IF batch = <<>> THEN <<>>
        ELSE Pairs(Head(batch), InRegistrationOrder(LinksOn(Head(batch).wd)))
                 \o DispatchOrder(Tail(batch))

RECURSIVE IsSubsequence(_, _)
\* the elements of a are in b, in the same order
IsSubsequence(a, b) ==
    IF a = <<>> THEN TRUE
    ELSE IF b = <<>> THEN FALSE
    ELSE IF Head(a) = Head(b) THEN IsSubsequence(Tail(a), Tail(b))
    ELSE IsSubsequence(a, Tail(b))

\* the (raw event, callback) pairs of the callbacks a read invoked
Dispatched == [i \in DOMAIN ret.log |-> [raw |-> ret.log[i].raw, cb |-> ret.log[i].cb]]

\* C16: within one read the raw events are dispatched in the order the
\* low-level read returned them and the Events delivered keep that order:
\* the Events of raw event i come before those of raw event j when i < j,
\* and the Events of one raw event follow the order in which the callbacks
\* were registered on the _Descriptor.
Thm_C16_Order ==
    (ret.op = "read" /\ ret.lowread /\ ret.err = NoError) =>
        /\ IsSubsequence(Dispatched, DispatchOrder(ret.batch))
        /\ Delivered = Collected(ret.log)

\* a read dispatched two raw events, each to the Links of two Watches, and
\* delivered four Events
Wit_C16_TwoByTwo ==
    /\ ret.op = "read" /\ ret.lowread /\ ret.err = NoError
    /\ Len(ret.batch) = 2
    /\ Len(ret.log) = 4 /\ Len(Delivered) = 4
    /\ ret.log[1].cb # ret.log[2].cb

-----------------------------------------------------------------------------
(* C17: the bit of IN_LINK_CHANGED.                                        *)

\* a power of two
IsPowerOfTwo(x) == \E k \in 0..(MaxBits + 1) : x = 2^k

\* C17 as stated: for every table of constants the IN_LINK_CHANGED computed
\* at import is a power of two strictly greater than the union of the
\* table's values, and shares no bit with any of them
Cex_C17_FreeBit ==
    ret.op = "import" =>
        /\ IsPowerOfTwo(ret.IN_LINK_CHANGED)
        /\ ret.IN_LINK_CHANGED > ret.inotify_builtin_constants
        /\ \A v \in ret.constants : BitAnd(ret.IN_LINK_CHANGED, v) = 0

-----------------------------------------------------------------------------
(* C18: the filter of _Descriptor.handle_event.                            *)

\* a raw event is for the registration of a Link: its mask intersects the
\* registration's and the name filter is absent or the raw event's name
C18_IsFor(p) ==
    /\ (p.raw.mask \cap LinkOf(p.cb).mask) # {}
    /\ (LinkOf(p.cb).name = None \/ LinkOf(p.cb).name = p.raw.name)

\* C18: _Descriptor.handle_event invokes a registered callback for a raw
\* event if and only if the raw mask intersects the registration's mask
\* and its name filter is absent or equals the raw event's name; a
\* matching callback is invoked exactly once for each raw event, and a
\* registration that does not match contributes no Event.
Thm_C18_DescriptorFilter ==
    (ret.op = "read" /\ ret.lowread /\ ret.err = NoError) =>
        /\ Dispatched = SelectSeq(DispatchOrder(ret.batch), C18_IsFor)
        /\ Len(Delivered) = Len(ret.log)

\* for one raw event with an entry name, a read invoked the callback of the
\* registration with that name filter and not the callback of another
\* registration on the same _Descriptor
Wit_C18_OneOfTwo ==
    /\ ret.op = "read" /\ ret.lowread /\ ret.err = NoError
    /\ \E i \in DOMAIN ret.batch :
           /\ ret.batch[i].name # None
           /\ \E c1 \in LinksOn(ret.batch[i].wd), c2 \in LinksOn(ret.batch[i].wd) :
                  /\ c1 # c2
                  /\ LogEntries(ret.batch[i], c1) # {}
                  /\ LogEntries(ret.batch[i], c2) = {}
                  /\ (ret.batch[i].mask \cap LinkOf(c2).mask) # {}

-----------------------------------------------------------------------------
(* C19: an add that fails.                                                 *)

\* the Watches that have an entry on a _Descriptor of the registry
RegisteredWatches ==
    UNION { { watchdescriptors[wd].callbacks[i].cb.watch :
                  i \in DOMAIN watchdescriptors[wd].callbacks } :
            wd \in DOMAIN watchdescriptors }

\* C19 as stated: an add that fails leaves the Watcher as it was: no
\* _Descriptor is new, no entry was appended for a Link of the Watch that
\* failed, and the path registry has no entry it did not have
Cex_C19_FailedAddLeavesNothing ==
    (ret.op = "add" /\ ret.err # NoError) =>
        /\ DOMAIN watchdescriptors = ret.prewds
        /\ ret.wid = 0
        /\ ret.wid \notin RegisteredWatches
        /\ ret.existed \/ ret.pth \notin DOMAIN paths

-----------------------------------------------------------------------------
(* C20: whose callbacks the registry holds.                                *)

\* C20 as stated: every callback registered on a _Descriptor of the
\* registry belongs to a Link of a Watch the path registry holds
Cex_C20_CallbacksOfHeldWatches ==
    RegisteredWatches \subseteq { paths[pth] : pth \in DOMAIN paths }

=============================================================================
